---------------------------- MODULE Spec2Model ----------------------------
(***************************************************************************)
(* The fishing-net background animation of src/background.js as a state   *)
(* machine: the module-level script (scene, camera, renderer, net), the   *)
(* animation callback animate and the window resize listener.             *)
(*                                                                         *)
(* Numbers.  JavaScript numbers are modelled in fixed point:              *)
(*   - lattice and vertex x, y : halves (gridSize/2 is 12.5 in the code)  *)
(*   - time and angles         : thousandths (0.001, milliradians)        *)
(*   - sin, cos                : thousandths                               *)
(*   - depths z and rotations  : ten-thousandths (0.0001)                  *)
(*   - ratios (aspect, near)   : reduced fractions [n, d]                  *)
(* IEEE rounding of the doubles is not modelled.                           *)
(***************************************************************************)
EXTENDS Integers, Sequences, FiniteSets

\* ------------------------------------------------------------------ bounds
\* Number of animate invocations explored (the loop itself is unbounded).
MaxTicks == 3
\* Number of ticks that may end with an uncaught exception (SpecThrow).
MaxThrows == 1

\* ------------------------------------------------------- program constants
gridSize == 25
spacing == 1
Background == 5623551
Fov == 75
Far == 1000
RandomScale == 20
\* Math.PI / 4 in ten-thousandths
PiOver4 == 7854

\* Fractions, reduced, so that equal ratios are equal values.
RECURSIVE Gcd(_, _)
Gcd(a, b) == IF b = 0 THEN a ELSE Gcd(b, a % b)

Ratio(n, d) == [n |-> n \div Gcd(n, d), d |-> d \div Gcd(n, d)]

Near == Ratio(1, 10)

\* ------------------------------------------------------------- environment
\* Viewport sizes the host may report (window.innerWidth, innerHeight).
Sizes == { <<800, 600>>, <<1024, 768>>, <<600, 800>> }

\* Math.random() in [0, 1), as a numerator over RandomDen.
RandomDen == 1000
RandomDraws == {0, 49, 50, 500, 949, 950, 999}

\* ---------------------------------------------------------- Math.sin, cos
\* First quadrant, a in 0..1571 milliradians, result in thousandths.
SinQ(a) ==
    LET sq == (a * a) \div 1000
        t3 == (a * sq) \div 6000
        t5 == (t3 * sq) \div 20000
        t7 == (t5 * sq) \div 42000
    IN  a - t3 + t5 - t7

\* One period, 0..6282 milliradians, reduced to the first quadrant.
SinTable ==
    [r \in 0..6282 |->
        IF r <= 1571 THEN SinQ(r)
        ELSE IF r <= 3142 THEN SinQ(3142 - r)
        ELSE IF r <= 4712 THEN 0 - SinQ(r - 3142)
        ELSE 0 - SinQ(6283 - r)]

\* Math.sin of a milliradians (any sign), in thousandths.
Sin(a) == SinTable[a % 6283]

\* Math.cos of a milliradians, in thousandths.
Cos(a) == Sin(a + 1571)

\* ------------------------------------------------------- createFishingNet
\* GENERATE BASE COORDINATES: x = (j - gridSize/2) * spacing, in halves.
BaseCoords ==
    [i \in 0..(gridSize - 1) |->
        [j \in 0..(gridSize - 1) |->
            [x |-> (2 * j - gridSize) * spacing,
             y |-> (2 * i - gridSize) * spacing,
             baseZ |-> 0]]]

\* Depth of point j of horizontal line i at construction.
HorizontalZ(coord, i, j) ==
    Sin(j * 300 + i * 300) * 10 + Cos((coord.x + coord.y) * 100) * 5

\* Depth of point i of vertical line j at construction.
VerticalZ(coord, i, j) ==
    Cos(j * 300 + i * 300) * 10 + Sin((coord.x + coord.y) * 100) * 5

\* BufferGeometry.setFromPoints: the flat position array x0,y0,z0,x1,...
SetFromPoints(points) ==
    [n \in 0..(3 * Len(points) - 1) |->
        LET p == points[(n \div 3) + 1]
        IN  IF n % 3 = 0 THEN p.x ELSE IF n % 3 = 1 THEN p.y ELSE p.z]

HorizontalLine(geo, i) ==
    SetFromPoints([q \in 1..gridSize |->
        LET j == q - 1
            coord == geo[i][j]
        IN  [x |-> coord.x, y |-> coord.y, z |-> HorizontalZ(coord, i, j)]])

VerticalLine(geo, j) ==
    SetFromPoints([q \in 1..gridSize |->
        LET i == q - 1
            coord == geo[i][j]
        IN  [x |-> coord.x, y |-> coord.y, z |-> VerticalZ(coord, i, j)]])

\* Variant: the vertical loop stops one line short.
NetChildrenShort(geo) ==
    [l \in 0..(2 * gridSize - 2) |->
        IF l < gridSize THEN HorizontalLine(geo, l)
        ELSE VerticalLine(geo, l - gridSize)]

\* netGroup.add for the horizontal lines, then for the vertical lines.
NetChildren(geo) ==
    [l \in 0..(2 * gridSize - 1) |->
        IF l < gridSize THEN HorizontalLine(geo, l)
        ELSE VerticalLine(geo, l - gridSize)]

createFishingNet ==
    [group |-> [rotation |-> [x |-> 0, y |-> 0, z |-> 0],
                children |-> NetChildren(BaseCoords)],
     geometry |-> BaseCoords]

\* ------------------------------------------------------------------ state
VARIABLES
    pc,          \* "start": the script has run up to its last line; "running"
    window,      \* host viewport: [innerWidth, innerHeight]
    scene,       \* [background]
    camera,      \* [fov, aspect, near, far, position, lookAt, projection]
    renderer,    \* [width, height]: the output surface
    fishingNet,  \* [rotation, children]: the net group
    netGeometry, \* the lattice returned by createFishingNet
    time,        \* the time accumulator, thousandths
    pending,     \* animation-frame callbacks requested and not yet run
    rendered,    \* what renderer.render drew last, and how many frames
    ticks,       \* invocations of animate so far
    thrown,      \* invocations of animate ended by an exception
    lastEvent    \* the handler that ran last: "script", "animate", "throw", "resize"

vars == <<pc, window, scene, camera, renderer, fishingNet, netGeometry,
          time, pending, rendered, ticks, thrown, lastEvent>>

\* PerspectiveCamera.updateProjectionMatrix: the projection is a function
\* of fov, aspect, near and far.
updateProjectionMatrix(cam) ==
    [cam EXCEPT !.projection =
        [fov |-> cam.fov, aspect |-> cam.aspect,
         near |-> cam.near, far |-> cam.far]]

\* new THREE.PerspectiveCamera(fov, aspect, near, far)
PerspectiveCamera(fov, aspect, near, far) ==
    updateProjectionMatrix(
        [fov |-> fov, aspect |-> aspect, near |-> near, far |-> far,
         position |-> <<0, 0, 0>>, lookAt |-> <<0, 0, -1>>,
         projection |-> <<>>])

\* renderer.setSize(width, height)
setSize(r, width, height) == [r EXCEPT !.width = width, !.height = height]

\* Variant: the position the comment above the call describes (y -10, z 20).
PositionCameraAsCommented(cam) ==
    [cam EXCEPT !.position = <<0, -10, 20>>, !.lookAt = <<0, 0, 0>>]

\* camera.position.set(0, 12, 5); camera.lookAt(0, 0, 0)
PositionCamera(cam) ==
    [cam EXCEPT !.position = <<0, 12, 5>>, !.lookAt = <<0, 0, 0>>]

\* The state after the module-level script has run up to, and not
\* including, its last line animate(), for each initial viewport size.
Init ==
    \E sz \in Sizes :
        /\ pc = "start"
        /\ window = [innerWidth |-> sz[1], innerHeight |-> sz[2]]
        /\ scene = [background |-> Background]
        /\ camera = PositionCamera(
                        PerspectiveCamera(Fov, Ratio(sz[1], sz[2]), Near, Far))
        /\ renderer = setSize([width |-> 0, height |-> 0], sz[1], sz[2])
        /\ fishingNet = createFishingNet.group
        /\ netGeometry = createFishingNet.geometry
        /\ time = 0
        /\ pending = 0
        /\ rendered = [frames |-> 0, time |-> 0,
                       rotation |-> [x |-> 0, y |-> 0, z |-> 0],
                       children |-> <<>>]
        /\ ticks = 0
        /\ thrown = 0
        /\ lastEvent = "script"

\* ---------------------------------------------------------------- animate
\* Variant: Math.floor(Math.random() * 20) - 10, a step of either sign.
RandomStepSigned(r) == ((r * RandomScale) \div RandomDen) - 10

\* Variant: Math.round in place of Math.floor.
RandomStepRound(r) == (r * RandomScale + (RandomDen \div 2)) \div RandomDen

\* Math.floor(Math.random() * 20), for the draw r / RandomDen.
RandomStep(r) == (r * RandomScale) \div RandomDen

\* The per-frame depth of a vertex at (x, y), in ten-thousandths.
Wave(x, y, t) ==
    Sin(x * 150 + y * 150 + t) * 10 + Cos((x + y) * 100) * 5

\* Variant: the depth written one slot early, over y.
ZIndexY(i) == i + 1

\* The index of a point's depth, given the index i of its x.
ZIndex(i) == i + 2

\* for (let i = 0; i < positions.length; i += 3) positions[i+2] = z
\* The iteration for i reads slots i, i+1 and writes one slot of the same
\* point, so the loop is this map over the slots n, with i the start of
\* the point that holds n.
UpdatePositions(positions, t) ==
    [n \in DOMAIN positions |->
        LET i == n - (n % 3)
        IN  IF n = ZIndex(i)
            THEN Wave(positions[i], positions[i + 1], t)
            ELSE positions[n]]

\* fishingNet.children.forEach, for the lines before index upTo (all of
\* them unless the callback throws).
UpdateLines(children, t, upTo) ==
    [l \in DOMAIN children |->
        IF l < upTo THEN UpdatePositions(children[l], t)
        ELSE children[l]]

\* rotation.x = Math.PI / 4 + Math.sin(time) * 0.1
\* rotation.y = Math.cos(time) * 0.2
Rotate(rotation, t) ==
    [rotation EXCEPT !.x = PiOver4 + Sin(t), !.y = Cos(t) * 2]

\* Variant: the next frame requested at the end of animate.
AnimateStepsRequestLast ==
    <<"time", "rotation", "lines", "render", "requestAnimationFrame">>

\* Variant: the scene rendered before the lines are updated.
AnimateStepsRenderEarly ==
    <<"requestAnimationFrame", "time", "rotation", "render", "lines">>

\* Variant: the next frame requested twice.
AnimateStepsRequestTwice ==
    <<"requestAnimationFrame", "requestAnimationFrame", "time", "rotation",
      "lines", "render">>

\* The statements of animate, in order.
AnimateSteps == <<"requestAnimationFrame", "time", "rotation", "lines", "render">>

\* One statement of animate on s = [pending, time, net, rendered].
Step(s, name, r) ==
    CASE name = "requestAnimationFrame" ->
            [s EXCEPT !.pending = s.pending + 1]
      [] name = "time" ->
            [s EXCEPT !.time = s.time + RandomStep(r)]
      [] name = "rotation" ->
            [s EXCEPT !.net.rotation = Rotate(s.net.rotation, s.time)]
      [] name = "lines" ->
            [s EXCEPT !.net.children =
                UpdateLines(s.net.children, s.time,
                            Cardinality(DOMAIN s.net.children))]
      [] name = "render" ->
            [s EXCEPT !.rendered =
                [frames |-> s.rendered.frames + 1, time |-> s.time,
                 rotation |-> s.net.rotation, children |-> s.net.children]]

\* Statements from..to of animate, in order.
\* (CHOOSE out \in { f(v) : v \in {e} } : TRUE is f(e), with e evaluated once.)
RECURSIVE RunSteps(_, _, _, _)
RunSteps(s, from, to, r) ==
    IF from > to THEN s
    ELSE CHOOSE out \in { RunSteps(n, from + 1, to, r) :
                             n \in {Step(s, AnimateSteps[from], r)} } : TRUE

\* animate() running to completion.
animate(s, r) == RunSteps(s, 1, Len(AnimateSteps), r)

\* animate() when statement `at` throws: the statements before it have
\* run; a throw inside the forEach leaves the lines before upTo updated.
animateThrows(s, r, at, upTo) ==
    CHOOSE out \in
        { IF AnimateSteps[at] = "lines"
          THEN [before EXCEPT !.net.children =
                    UpdateLines(before.net.children, before.time, upTo)]
          ELSE before : before \in {RunSteps(s, 1, at - 1, r)} } : TRUE

AnimState ==
    [pending |-> pending, time |-> time, net |-> fishingNet,
     rendered |-> rendered]

Apply(s) ==
    /\ pending' = s.pending
    /\ time' = s.time
    /\ fishingNet' = s.net
    /\ rendered' = s.rendered

\* Where animate may throw: <<statement, lines already updated>>, at the
\* start of statements 2..5 or, in statement 4 (the forEach), after the
\* horizontal lines; the request itself (statement 1) does not throw.
ThrowPoints ==
    { <<at, 0>> : at \in 2..Len(AnimateSteps) } \cup { <<4, gridSize>> }

\* Math.random() draws explored for a call that throws.
ThrowDraws == {0, 999}

\* animate(): the last line of the script calls it directly.
Start ==
    /\ pc = "start"
    /\ pc' = "running"
    /\ ticks' = ticks + 1
    /\ lastEvent' = "animate"
    /\ UNCHANGED <<window, scene, camera, renderer, netGeometry, thrown>>
    /\ \E r \in RandomDraws : \E s \in {animate(AnimState, r)} : Apply(s)

\* The host runs one pending animation-frame callback.
Tick ==
    /\ pc = "running"
    /\ pending > 0
    /\ ticks < MaxTicks
    /\ ticks' = ticks + 1
    /\ lastEvent' = "animate"
    /\ UNCHANGED <<pc, window, scene, camera, renderer, netGeometry, thrown>>
    /\ \E r \in RandomDraws :
          \E s \in {animate([AnimState EXCEPT !.pending = pending - 1], r)} :
              Apply(s)

\* The first call of animate ends with an uncaught exception; the script
\* was at its last line.
StartThrows ==
    /\ pc = "start"
    /\ thrown < MaxThrows
    /\ pc' = "running"
    /\ ticks' = ticks + 1
    /\ thrown' = thrown + 1
    /\ lastEvent' = "throw"
    /\ UNCHANGED <<window, scene, camera, renderer, netGeometry>>
    /\ \E r \in ThrowDraws, tp \in ThrowPoints :
          \E s \in {animateThrows(AnimState, r, tp[1], tp[2])} : Apply(s)

\* A pending callback runs and ends with an uncaught exception.
TickThrows ==
    /\ pc = "running"
    /\ pending > 0
    /\ ticks < MaxTicks
    /\ thrown < MaxThrows
    /\ ticks' = ticks + 1
    /\ thrown' = thrown + 1
    /\ lastEvent' = "throw"
    /\ UNCHANGED <<pc, window, scene, camera, renderer, netGeometry>>
    /\ \E r \in ThrowDraws, tp \in ThrowPoints :
          \E s \in {animateThrows([AnimState EXCEPT !.pending = pending - 1],
                                  r, tp[1], tp[2])} : Apply(s)

\* Variant: the aspect set, the projection matrix not refreshed.
OnResizeStaleProjection(cam, rend, w, h) ==
    [camera |-> [cam EXCEPT !.aspect = Ratio(w, h)],
     renderer |-> setSize(rend, w, h)]

\* The resize listener; camera and renderer after it, for a viewport w by h.
OnResize(cam, rend, w, h) ==
    [camera |-> updateProjectionMatrix([cam EXCEPT !.aspect = Ratio(w, h)]),
     renderer |-> setSize(rend, w, h)]

\* The host resizes the viewport and dispatches 'resize'.
Resize ==
    /\ pc = "running"
    /\ \E sz \in Sizes :
          /\ window' = [innerWidth |-> sz[1], innerHeight |-> sz[2]]
          /\ camera' = OnResize(camera, renderer, sz[1], sz[2]).camera
          /\ renderer' = OnResize(camera, renderer, sz[1], sz[2]).renderer
    /\ lastEvent' = "resize"
    /\ UNCHANGED <<pc, scene, fishingNet, netGeometry, time, pending,
                   rendered, ticks, thrown>>

Next == Start \/ Tick \/ Resize

\* The program when no statement throws.
Spec == Init /\ [][Next]_vars

\* The host runs a pending animation-frame callback eventually.
LiveSpec == Init /\ [][Next]_vars /\ WF_vars(Tick)

NextThrow == Start \/ Tick \/ StartThrows \/ TickThrows \/ Resize

\* The program when statements of animate may throw.
SpecThrow == Init /\ [][NextThrow]_vars

\* ------------------------------------------------------------- properties
\* The children of the net group as createFishingNet left them.
Constructed == createFishingNet.group.children

Cells == 0..(gridSize - 1)

\* C1: after any ticks and resize events, the x and y of every point of
\* every polyline are the ones written by createFishingNet; only the slots
\* of the depths (index i+2) are ever written.
XYPreserved ==
    \A l \in DOMAIN Constructed :
        /\ DOMAIN fishingNet.children[l] = DOMAIN Constructed[l]
        /\ \A n \in DOMAIN Constructed[l] :
              n % 3 # 2 => fishingNet.children[l][n] = Constructed[l][n]

\* Ticks and a resize have run and the depths are no longer the constructed ones.
XYPreservedWitness ==
    /\ ticks >= 2
    /\ lastEvent = "resize"
    /\ \E l \in DOMAIN Constructed :
          fishingNet.children[l][2] # Constructed[l][2]

\* C2: time is 0 at startup and no step (tick or resize) decreases it or
\* resets it.
TimeNeverDecreases ==
    /\ time = 0
    /\ [][time' >= time]_vars

\* Time has advanced over several ticks and a resize has left it alone.
TimeNeverDecreasesWitness ==
    /\ ticks >= 3
    /\ time >= 20
    /\ lastEvent = "resize"

\* C3: the request for the next frame is the first statement of animate,
\* so after a tick that threw at a later statement (time, rotation, lines
\* or render) one callback is pending, and as long as ticks are explored
\* the next tick can run.
PendingAfterThrow ==
    /\ lastEvent = "throw" => pending = 1
    /\ (thrown > 0 /\ ticks < MaxTicks) => ENABLED Tick

\* A tick ran to completion, and rendered, after an earlier one threw.
PendingAfterThrowWitness ==
    /\ thrown > 0
    /\ lastEvent = "animate"
    /\ rendered.frames >= 1
    /\ rendered.time = time

\* C4: the camera aspect (and the projection made from it) is width/height
\* of the viewport as of the last resize event, the renderer has that size,
\* and handling a size twice leaves what handling it once leaves.
ResizeLastWins ==
    /\ camera.aspect = Ratio(window.innerWidth, window.innerHeight)
    /\ camera.projection.aspect = camera.aspect
    /\ renderer = [width |-> window.innerWidth, height |-> window.innerHeight]
    /\ \A sz \in Sizes :
          LET once == OnResize(camera, renderer, sz[1], sz[2])
          IN  OnResize(once.camera, once.renderer, sz[1], sz[2]) = once

\* A resize to 600 by 800 was handled after ticks had run.
ResizeLastWinsWitness ==
    /\ lastEvent = "resize"
    /\ ticks >= 2
    /\ renderer = [width |-> 600, height |-> 800]
    /\ camera.aspect = [n |-> 3, d |-> 4]

\* C5: the net group holds 2 * gridSize polylines of gridSize points each,
\* the gridSize rows first and then the gridSize columns, in every state.
NetShape ==
    /\ DOMAIN fishingNet.children = 0..(2 * gridSize - 1)
    /\ \A l \in DOMAIN fishingNet.children :
          DOMAIN fishingNet.children[l] = 0..(3 * gridSize - 1)
    /\ \A i \in Cells, j \in Cells :
          /\ fishingNet.children[i][3 * j] = netGeometry[i][j].x
          /\ fishingNet.children[i][3 * j + 1] = netGeometry[i][j].y
          /\ fishingNet.children[gridSize + j][3 * i] = netGeometry[i][j].x
          /\ fishingNet.children[gridSize + j][3 * i + 1] = netGeometry[i][j].y

\* All ticks of the run and a resize have acted on the 50 polylines.
NetShapeWitness ==
    /\ ticks = MaxTicks
    /\ lastEvent = "resize"
    /\ Cardinality(DOMAIN fishingNet.children) = 50
    /\ Cardinality(DOMAIN fishingNet.children[49]) = 75

\* C6: the lattice is centered at the origin: neighbours are one spacing
\* apart (two halves) and on each axis the smallest and the largest
\* coordinate are negatives of each other.
LatticeCentered ==
    /\ \A i \in Cells, j \in Cells :
          /\ j > 0 => netGeometry[i][j].x - netGeometry[i][j - 1].x = 2 * spacing
          /\ i > 0 => netGeometry[i][j].y - netGeometry[i - 1][j].y = 2 * spacing
    /\ \A i \in Cells :
          netGeometry[i][0].x = 0 - netGeometry[i][gridSize - 1].x
    /\ \A j \in Cells :
          netGeometry[0][j].y = 0 - netGeometry[gridSize - 1][j].y

\* C7: background 0x55CEFF, field of view 75, near 0.1, far 1000 and the
\* camera at (0, 12, 5) looking at the origin hold in every state; a resize
\* changes only the camera aspect, its projection and the renderer size; a
\* tick leaves scene, camera and renderer alone.
SceneConstants ==
    /\ scene.background = 5623551
    /\ camera.fov = 75
    /\ camera.near = [n |-> 1, d |-> 10]
    /\ camera.far = 1000
    /\ camera.position = <<0, 12, 5>>
    /\ camera.lookAt = <<0, 0, 0>>

ResizeFrame ==
    lastEvent' = "resize" =>
        /\ UNCHANGED <<scene, fishingNet, netGeometry, time, pending, rendered>>
        /\ camera' = [camera EXCEPT !.aspect = camera'.aspect,
                                    !.projection = camera'.projection]

TickFrame ==
    lastEvent' = "animate" =>
        /\ UNCHANGED <<scene, camera, renderer, window, netGeometry>>
        /\ fishingNet'.rotation.z = fishingNet.rotation.z
        /\ \A l \in DOMAIN fishingNet.children :
              \A n \in DOMAIN fishingNet.children[l] :
                  n % 3 # 2 =>
                      fishingNet'.children[l][n] = fishingNet.children[l][n]

StepQuantized ==
    /\ [](0 <= time /\ time <= 19 * ticks)
    /\ [][ticks' # ticks => \E k \in 0..19 : time' = time + k]_vars

\* Three ticks with steps 19, 19 and 0.
StepQuantizedWitness ==
    /\ ticks = 3
    /\ time = 38

\* C9: what a render draws: every point's depth is the per-frame wave of
\* its own x, y and the time as advanced by that tick, the rotation is the
\* one of that time, the row and the column through a cell agree there, and
\* the constructed depths are never drawn (nothing is drawn before the
\* first call of animate has updated the lines).
RenderedIsWave ==
    /\ pc = "start" => (rendered.frames = 0 /\ fishingNet.children = Constructed)
    /\ pc = "running" => rendered.frames = ticks
    /\ rendered.frames > 0 =>
          /\ rendered.time = time
          /\ rendered.rotation =
                [x |-> 7854 + Sin(time), y |-> Cos(time) * 2, z |-> 0]
          /\ DOMAIN rendered.children = DOMAIN Constructed
          /\ \A l \in DOMAIN rendered.children, q \in Cells :
                rendered.children[l][3 * q + 2] =
                    Wave(rendered.children[l][3 * q],
                         rendered.children[l][3 * q + 1], rendered.time)
          /\ \A l \in DOMAIN rendered.children :
                \E q \in Cells :
                    rendered.children[l][3 * q + 2] # Constructed[l][3 * q + 2]
          /\ \A i \in Cells, j \in Cells :
                rendered.children[i][3 * j + 2] =
                    rendered.children[gridSize + j][3 * i + 2]

\* Two frames drawn at a positive time; at construction the row and the
\* column through cell (0, 0) had different depths.
RenderedIsWaveWitness ==
    /\ rendered.frames >= 2
    /\ rendered.time > 0
    /\ lastEvent = "animate"
    /\ Constructed[0][2] # Constructed[gridSize][2]
    /\ rendered.children[0][2] = rendered.children[gridSize][2]

\* C10: once animate has been called there is exactly one pending
\* animation-frame callback between handlers, no handler changes that
\* number, and (pending callbacks being run eventually) every tick is
\* followed by a further one: the run reaches every tick count explored.
OnePending ==
    /\ [](pc = "running" => pending = 1)
    /\ [][pc = "running" => pending' = pending]_vars
    /\ (pc = "running") ~> (ticks = MaxTicks)

\* A callback is pending after two ticks and a resize.
OnePendingWitness ==
    /\ pc = "running"
    /\ pending = 1
    /\ ticks = 2
    /\ lastEvent = "resize"

====
